---- MODULE Spec2Model ----
(***************************************************************************)
(* BOQ Comparator (src/app.py): the Streamlit script that loads uploaded   *)
(* contractor quotations, tags their RATE/AMOUNT columns, folds them with  *)
(* outer joins (or side-by-side concatenation) and de-duplicates labels.   *)
(*                                                                         *)
(* A column label is a sequence of one-character strings, so that          *)
(* str.lower(), the substring test and the f-string suffixes are computed  *)
(* character by character.  A table (DataFrame) is a record                *)
(*   [cols |-> sequence of labels, rows |-> sequence of rows]              *)
(* where a row is a sequence of cells aligned by position with cols, and   *)
(* the row index is always 0..n-1 (pandas' RangeIndex).                    *)
(***************************************************************************)
EXTENDS Integers, Sequences, FiniteSets, TLC

\* ------------------------------------------------------------------ bounds
MaxFiles == 3
MaxRows == 2
MaxCols == 4

\* ------------------------------------------------------------- characters
ToLower == [A |-> "a", B |-> "b", C |-> "c", D |-> "d", E |-> "e", F |-> "f",
            G |-> "g", H |-> "h", I |-> "i", J |-> "j", K |-> "k", L |-> "l",
            M |-> "m", N |-> "n", O |-> "o", P |-> "p", Q |-> "q", R |-> "r",
            S |-> "s", T |-> "t", U |-> "u", V |-> "v", W |-> "w", X |-> "x",
            Y |-> "y", Z |-> "z"]

LowerChar(ch) == IF ch \in DOMAIN ToLower THEN ToLower[ch] ELSE ch

\* str.lower()
Lower(s) == [k \in 1..Len(s) |-> LowerChar(s[k])]

\* the Python test `sub in s` on strings
Contains(sub, s) ==
  \E k \in 1..(Len(s) - Len(sub) + 1) : SubSeq(s, k, k + Len(sub) - 1) = sub

DigitChar == <<"0", "1", "2", "3", "4", "5", "6", "7", "8", "9">>

\* the decimal text an f-string gives a non-negative int
RECURSIVE Dec(_)
Dec(n) == IF n < 10 THEN <<DigitChar[n + 1]>>
          ELSE Dec(n \div 10) \o <<DigitChar[(n % 10) + 1]>>

\* ----------------------------------------------------------------- labels
ITEM == <<"I", "T", "E", "M">>
DESCRIPTION == <<"D", "E", "S", "C", "R", "I", "P", "T", "I", "O", "N">>
RATE == <<"R", "A", "T", "E">>
AMOUNT == <<"A", "M", "O", "U", "N", "T">>
rate == <<"r", "a", "t", "e">>
SuffixX == <<"_", "x">>
SuffixY == <<"_", "y">>

\* labels the sample files use besides the ones above
Rate_Mixed == <<"R", "a", "t", "e">>
RATE_USD == <<"R", "A", "T", "E", "_", "U", "S", "D">>
QTY == <<"Q", "t", "y">>
LX == <<"X">>
LX_1 == <<"X", "_", "1">>

\* missing cell (NaN) and the cells of the sample files
NaN == "NaN"
KeyVals == {"A", "B"}

\* ----------------------------------------------------------------- tables
EmptyFrame == [cols |-> <<>>, rows |-> <<>>]

\* DataFrame.empty: some axis has length 0
IsEmpty(df) == Len(df.cols) = 0 \/ Len(df.rows) = 0

RowCount(df) == Len(df.rows)

HasCol(df, c) == \E k \in 1..Len(df.cols) : df.cols[k] = c

\* Index.get_loc for a label that occurs in cols
ColPos(cols, c) == CHOOSE k \in 1..Len(cols) :
                     cols[k] = c /\ \A m \in 1..(k - 1) : cols[m] # c

NaNRow(n) == [k \in 1..n |-> NaN]

\* DataFrame.rename(columns={old: new}): every column labelled old
RenameLabel(cols, old, new) ==
  [k \in 1..Len(cols) |-> IF cols[k] = old THEN new ELSE cols[k]]

\* -------------------------------------------------------- normalize_name
\* the index of enumerate(files) without start=1
normalize_name_ZeroBased(idx) ==
  <<"C", "o", "n", "t", "r", "a", "c", "t", "o", "r", "_">> \o Dec(idx - 1)

normalize_name(idx) ==
  <<"C", "o", "n", "t", "r", "a", "c", "t", "o", "r", "_">> \o Dec(idx)

\* --------------------------------------------------------------- load_table
\* A file is [name, parses, table]: parses says whether the pandas reader
\* returns (TRUE) or raises (FALSE); table is what it returns.
\* the except branch without st.error
load_table_Silent(file) ==
  IF file.parses
    THEN [df |-> file.table, err |-> <<>>]
    ELSE [df |-> EmptyFrame, err |-> <<>>]

load_table(file) ==
  IF file.parses
    THEN [df |-> file.table, err |-> <<>>]
    ELSE [df |-> EmptyFrame, err |-> <<file.name>>]

\* ------------------------------------------- RATE/AMOUNT standardisation
\* lines 76-79: the loop runs over the column index as it was when the loop
\* started; each matching label is renamed in place, with no break.
RECURSIVE RateScan(_, _, _)
RateScan(snapshot, k, cols) ==
  IF k > Len(snapshot) THEN cols
  ELSE LET c == snapshot[k]
       IN  IF Contains(rate, Lower(c))
             THEN RateScan(snapshot, k + 1, RenameLabel(cols, c, RATE))
             ELSE RateScan(snapshot, k + 1, cols)

StandardizeRate(cols) ==
  IF \E k \in 1..Len(cols) : cols[k] = RATE
    THEN cols
    ELSE RateScan(cols, 1, cols)

\* lines 80-85: the rename_map
TagColumns(cols, contractor_name) ==
  [k \in 1..Len(cols) |->
     IF cols[k] = RATE THEN contractor_name \o <<"_">> \o RATE
     ELSE IF cols[k] = AMOUNT THEN contractor_name \o <<"_">> \o AMOUNT
     ELSE cols[k]]

\* lines 73-85 for the table loaded from the file at 1-based position i
Normalize(df, i) ==
  [cols |-> TagColumns(StandardizeRate(df.cols), normalize_name(i)),
   rows |-> df.rows]

\* ---------------------------------------------------------------- key set
ModeBoth == "ITEM + DESCRIPTION"
ModeDesc == "DESCRIPTION only"
ModeItem == "ITEM only"
Modes == {ModeBoth, ModeDesc, ModeItem}

\* "ITEM + DESCRIPTION" joining only when both keys are shared
KeysFor_AllOrNothing(mode, combined_, part) ==
  IF mode = ModeBoth
    THEN IF \A k \in {ITEM, DESCRIPTION} : HasCol(combined_, k) /\ HasCol(part, k)
           THEN <<ITEM, DESCRIPTION>> ELSE <<>>
  ELSE IF mode = ModeDesc
    THEN IF HasCol(combined_, DESCRIPTION) /\ HasCol(part, DESCRIPTION)
           THEN <<DESCRIPTION>> ELSE <<>>
  ELSE IF HasCol(combined_, ITEM) /\ HasCol(part, ITEM)
           THEN <<ITEM>> ELSE <<>>

\* lines 96-101
KeysFor(mode, combined_, part) ==
  IF mode = ModeBoth
    THEN SelectSeq(<<ITEM, DESCRIPTION>>,
                   LAMBDA k : HasCol(combined_, k) /\ HasCol(part, k))
  ELSE IF mode = ModeDesc
    THEN IF HasCol(combined_, DESCRIPTION) /\ HasCol(part, DESCRIPTION)
           THEN <<DESCRIPTION>> ELSE <<>>
  ELSE IF HasCol(combined_, ITEM) /\ HasCol(part, ITEM)
           THEN <<ITEM>> ELSE <<>>

\* ------------------------------------------------ pd.merge(how="outer")
IsKey(keys, c) == \E k \in 1..Len(keys) : keys[k] = c

KeyOf(df, keys, row) == [k \in 1..Len(keys) |-> row[ColPos(df.cols, keys[k])]]

\* the positions of the columns that are not join keys, in column order
RECURSIVE NonKeyPos(_, _, _)
NonKeyPos(cols, keys, k) ==
  IF k > Len(cols) THEN <<>>
  ELSE IF IsKey(keys, cols[k]) THEN NonKeyPos(cols, keys, k + 1)
  ELSE <<k>> \o NonKeyPos(cols, keys, k + 1)

Pick(row, pos) == [k \in 1..Len(pos) |-> row[pos[k]]]

\* a non-key label both sides carry gets the suffix
MergeCols(left, right, keys) ==
  LET over(c) == ~IsKey(keys, c) /\ HasCol(left, c) /\ HasCol(right, c)
      rpos == NonKeyPos(right.cols, keys, 1)
  IN  [k \in 1..Len(left.cols) |->
         IF over(left.cols[k]) THEN left.cols[k] \o SuffixX ELSE left.cols[k]]
      \o
      [k \in 1..Len(rpos) |->
         IF over(right.cols[rpos[k]]) THEN right.cols[rpos[k]] \o SuffixY
         ELSE right.cols[rpos[k]]]

\* the rows a left row contributes: one per right row with the same key,
\* or itself padded with NaN when no right row has its key
RECURSIVE MatchRows(_, _, _, _, _)
MatchRows(lrow, left, right, keys, r) ==
  IF r > Len(right.rows) THEN <<>>
  ELSE LET rrow == right.rows[r]
           rest == MatchRows(lrow, left, right, keys, r + 1)
       IN  IF KeyOf(left, keys, lrow) = KeyOf(right, keys, rrow)
             THEN <<lrow \o Pick(rrow, NonKeyPos(right.cols, keys, 1))>> \o rest
             ELSE rest

RECURSIVE LeftRows(_, _, _, _)
LeftRows(left, right, keys, l) ==
  IF l > Len(left.rows) THEN <<>>
  ELSE LET lrow == left.rows[l]
           m == MatchRows(lrow, left, right, keys, 1)
           rpos == NonKeyPos(right.cols, keys, 1)
       IN  (IF m = <<>> THEN <<lrow \o NaNRow(Len(rpos))>> ELSE m)
           \o LeftRows(left, right, keys, l + 1)

\* the right rows whose key no left row has: key cells from the right row,
\* the other left cells NaN
RECURSIVE RightOnlyRows(_, _, _, _)
RightOnlyRows(left, right, keys, r) ==
  IF r > Len(right.rows) THEN <<>>
  ELSE LET rrow == right.rows[r]
           matched == \E l \in 1..Len(left.rows) :
                        KeyOf(left, keys, left.rows[l]) = KeyOf(right, keys, rrow)
           lpart == [k \in 1..Len(left.cols) |->
                       IF IsKey(keys, left.cols[k])
                         THEN rrow[ColPos(right.cols, left.cols[k])]
                         ELSE NaN]
           rest == RightOnlyRows(left, right, keys, r + 1)
       IN  IF matched THEN rest
           ELSE <<lpart \o Pick(rrow, NonKeyPos(right.cols, keys, 1))>> \o rest

\* how="left": the right rows without a match are dropped
OuterMerge_LeftJoin(left, right, keys) ==
  [cols |-> MergeCols(left, right, keys),
   rows |-> LeftRows(left, right, keys, 1)]

\* The rows are listed left table first, then the unmatched right rows;
\* pandas orders an outer join by key, which changes no row count and no label.
OuterMerge(left, right, keys) ==
  [cols |-> MergeCols(left, right, keys),
   rows |-> LeftRows(left, right, keys, 1) \o RightOnlyRows(left, right, keys, 1)]

\* ------------------------------------------------ pd.concat(axis=1)
\* both row indexes are 0..n-1, so the result's index is the longer one and
\* the shorter table's cells are NaN below its last row
\* join="inner": only the row positions both tables have
ConcatColumns_Inner(left, right) ==
  LET n == IF RowCount(left) <= RowCount(right)
             THEN RowCount(left) ELSE RowCount(right)
  IN  [cols |-> left.cols \o right.cols,
       rows |-> [k \in 1..n |-> left.rows[k] \o right.rows[k]]]

\* reindexed to the left table: the right table's extra rows are dropped
ConcatColumns_LeftIndex(left, right) ==
  [cols |-> left.cols \o right.cols,
   rows |-> [k \in 1..RowCount(left) |->
               left.rows[k] \o
               (IF k <= RowCount(right) THEN right.rows[k]
                ELSE NaNRow(Len(right.cols)))]]

ConcatColumns(left, right) ==
  LET n == IF RowCount(left) >= RowCount(right)
             THEN RowCount(left) ELSE RowCount(right)
  IN  [cols |-> left.cols \o right.cols,
       rows |-> [k \in 1..n |->
                   (IF k <= RowCount(left) THEN left.rows[k]
                    ELSE NaNRow(Len(left.cols)))
                   \o
                   (IF k <= RowCount(right) THEN right.rows[k]
                    ELSE NaNRow(Len(right.cols)))]]

\* lines 96-106: one iteration of the fold
FoldOp(mode, combined_, part) ==
  IF KeysFor(mode, combined_, part) # <<>> THEN "merge" ELSE "concat"

FoldOnce(mode, combined_, part) ==
  LET keys == KeysFor(mode, combined_, part)
  IN  IF keys # <<>> THEN OuterMerge(combined_, part, keys)
      ELSE ConcatColumns(combined_, part)

\* ------------------------------------------------- make_columns_unique
\* seen is the dict of the loop: a function from the labels met so far to
\* their counters
\* the suffix taken before the counter is incremented
RECURSIVE UniqueLoop_StaleCounter(_, _, _, _)
UniqueLoop_StaleCounter(cols, k, seen, new_cols) ==
  IF k > Len(cols) THEN new_cols
  ELSE LET col == cols[k]
       IN  IF col \notin DOMAIN seen
             THEN UniqueLoop_StaleCounter(cols, k + 1, (col :> 0) @@ seen,
                                          Append(new_cols, col))
             ELSE UniqueLoop_StaleCounter(cols, k + 1,
                                          [seen EXCEPT ![col] = seen[col] + 1],
                                          Append(new_cols,
                                                 col \o <<"_">> \o Dec(seen[col])))

RECURSIVE UniqueLoop(_, _, _, _)
UniqueLoop(cols, k, seen, new_cols) ==
  IF k > Len(cols) THEN new_cols
  ELSE LET col == cols[k]
       IN  IF col \notin DOMAIN seen
             THEN UniqueLoop(cols, k + 1, (col :> 0) @@ seen,
                             Append(new_cols, col))
             ELSE UniqueLoop(cols, k + 1,
                             [seen EXCEPT ![col] = seen[col] + 1],
                             Append(new_cols,
                                    col \o <<"_">> \o Dec(seen[col] + 1)))

make_columns_unique(df) ==
  [cols |-> UniqueLoop(df.cols, 1, [c \in {} |-> 0], <<>>), rows |-> df.rows]

\* ------------------------------------------------------------ sample files
File(name, cols, rows) ==
  [name |-> name, parses |-> TRUE, table |-> [cols |-> cols, rows |-> rows]]

\* a file the pandas reader raises on
Corrupt == [name |-> "broken.xlsx", parses |-> FALSE, table |-> EmptyFrame]

\* a file with a header row and no data rows
HeaderOnly == File("header.csv", <<ITEM, RATE>>, <<>>)

\* files that differ in their column labels
FilesCols ==
  { File("full.csv", <<ITEM, DESCRIPTION, RATE>>,
         << <<"A", "A", "p">>, <<"B", "A", "p">> >>),
    File("partial.csv", <<ITEM, DESCRIPTION, AMOUNT>>,
         << <<"A", "A", "w">>, <<"A", "B", "w">> >>),
    File("mixed.xlsx", <<ITEM, Rate_Mixed, AMOUNT>>, << <<"B", "q", "q">> >>),
    File("two_rates.csv", <<DESCRIPTION, rate, RATE_USD>>,
         << <<"A", "r", "r">> >>),
    File("x.csv", <<LX, LX_1>>, << <<"s", "s">> >>),
    File("x2.csv", <<LX>>, << <<"t">>, <<"t">> >>),
    File("exact.xlsx", <<ITEM, LX, RATE, RATE_USD>>,
         << <<"A", "u", "u", "u">> >>),
    HeaderOnly,
    Corrupt }

\* nA rows with ITEM "A" followed by nB rows with ITEM "B"
ItemRows(nA, nB) ==
  [k \in 1..(nA + nB) |-> <<IF k <= nA THEN "A" ELSE "B", "p">>]

\* files that differ in their rows
FilesRows ==
  { File("items.csv", <<ITEM, RATE>>, ItemRows(n[1], n[2])) :
      n \in { m \in (0..MaxRows) \X (0..MaxRows) : m[1] + m[2] \in 1..MaxRows } }
  \cup { File("qty.csv", <<QTY>>, [k \in 1..n |-> <<"q">>]) : n \in 1..MaxRows }
  \cup { Corrupt }

\* ------------------------------------------------------------------ state
VARIABLES
  files,       \* the set the user picks uploads from
  uploads,     \* st.file_uploader: the uploaded files, in upload order
  match_mode,  \* st.selectbox
  pc,          \* where the script is: idle, loading, folding, merged, done
  i,           \* enumerate(files, start=1)
  frames,      \* merge_contractors: frames
  combined,    \* merge_contractors: combined
  j,           \* 1-based position in frames of the next part
  prev,        \* history: combined before the latest fold iteration
  op,          \* history: "merge" or "concat", the branch that iteration took
  result,      \* result
  screen       \* what the page shows

vars == <<files, uploads, match_mode, pc, i, frames, combined, j, prev, op,
          result, screen>>

BlankScreen ==
  [errors |-> <<>>, warnings |-> <<>>, success |-> FALSE, table |-> <<>>,
   download |-> <<>>]

WarnNoFiles == "No valid files to merge!"
WarnNoData == "No data to display."
DownloadName == "Merged_BOQ.xlsx"

\* disabled only while nothing is uploaded
ButtonDisabled_EmptyOnly(ups) == Len(ups) = 0

\* line 41
ButtonDisabled(ups) == Len(ups) = 0 \/ Len(ups) < 2

InitWith(fs) ==
  /\ files = fs
  /\ uploads = <<>>
  /\ match_mode = ModeBoth
  /\ pc = "idle"
  /\ i = 1
  /\ frames = <<>>
  /\ combined = EmptyFrame
  /\ j = 1
  /\ prev = EmptyFrame
  /\ op = "none"
  /\ result = EmptyFrame
  /\ screen = BlankScreen

Init == InitWith(FilesCols)

\* a script run that is not a click draws the widgets only
Rerun ==
  /\ pc' = "idle"
  /\ i' = 1
  /\ frames' = <<>>
  /\ combined' = EmptyFrame
  /\ j' = 1
  /\ prev' = EmptyFrame
  /\ op' = "none"
  /\ result' = EmptyFrame
  /\ screen' = BlankScreen

\* the user adds a file to the uploader
Upload ==
  /\ pc \in {"idle", "done"}
  /\ Len(uploads) < MaxFiles
  /\ \E f \in files : uploads' = Append(uploads, f)
  /\ Rerun
  /\ UNCHANGED <<files, match_mode>>

\* the user picks a match mode
SelectMode ==
  /\ pc \in {"idle", "done"}
  /\ \E m \in Modes : m # match_mode /\ match_mode' = m
  /\ Rerun
  /\ UNCHANGED <<files, uploads>>

\* the user clicks the button: lines 129-131 enter merge_contractors
Click ==
  /\ pc \in {"idle", "done"}
  /\ ~ButtonDisabled(uploads)
  /\ pc' = "loading"
  /\ i' = 1
  /\ frames' = <<>>
  /\ combined' = EmptyFrame
  /\ j' = 1
  /\ prev' = EmptyFrame
  /\ op' = "none"
  /\ result' = EmptyFrame
  /\ screen' = BlankScreen
  /\ UNCHANGED <<files, uploads, match_mode>>

\* one iteration of the loop of lines 68-87
LoadStep ==
  /\ pc = "loading"
  /\ i <= Len(uploads)
  /\ LET loaded == load_table(uploads[i])
     IN  /\ screen' = [screen EXCEPT !.errors = @ \o loaded.err]
         /\ \/ /\ IsEmpty(loaded.df)
               /\ frames' = frames
            \/ /\ ~IsEmpty(loaded.df)
               /\ frames' = Append(frames, Normalize(loaded.df, i))
  /\ i' = i + 1
  /\ UNCHANGED <<files, uploads, match_mode, pc, combined, j, prev, op, result>>

\* lines 89-91: no frame was kept
NoFrames ==
  /\ pc = "loading"
  /\ i > Len(uploads)
  /\ frames = <<>>
  /\ screen' = [screen EXCEPT !.warnings = Append(@, WarnNoFiles)]
  /\ result' = EmptyFrame
  /\ pc' = "merged"
  /\ UNCHANGED <<files, uploads, match_mode, i, frames, combined, j, prev, op>>

\* line 94
StartFold ==
  /\ pc = "loading"
  /\ i > Len(uploads)
  /\ frames # <<>>
  /\ combined' = frames[1]
  /\ j' = 2
  /\ pc' = "folding"
  /\ UNCHANGED <<files, uploads, match_mode, i, frames, prev, op, result, screen>>

\* one iteration of the loop of lines 95-106
FoldStep ==
  /\ pc = "folding"
  /\ j <= Len(frames)
  /\ prev' = combined
  /\ op' = FoldOp(match_mode, combined, frames[j])
  /\ combined' = FoldOnce(match_mode, combined, frames[j])
  /\ j' = j + 1
  /\ UNCHANGED <<files, uploads, match_mode, pc, i, frames, result, screen>>

\* line 108
ReturnCombined ==
  /\ pc = "folding"
  /\ j > Len(frames)
  /\ result' = combined
  /\ pc' = "merged"
  /\ UNCHANGED <<files, uploads, match_mode, i, frames, combined, j, prev, op,
                 screen>>

\* lines 133-152
Finish ==
  /\ pc = "merged"
  /\ \/ /\ ~IsEmpty(result)
        /\ result' = make_columns_unique(result)
        /\ screen' = [screen EXCEPT !.success = TRUE,
                                    !.table = <<make_columns_unique(result)>>,
                                    !.download = <<DownloadName>>]
     \/ /\ IsEmpty(result)
        /\ result' = result
        /\ screen' = [screen EXCEPT !.warnings = Append(@, WarnNoData)]
  /\ pc' = "done"
  /\ UNCHANGED <<files, uploads, match_mode, i, frames, combined, j, prev, op>>

RunStep == LoadStep \/ NoFrames \/ StartFold \/ FoldStep \/ ReturnCombined \/ Finish

Next == Upload \/ SelectMode \/ Click \/ RunStep

Spec == Init /\ [][Next]_vars

\* the same program over the files that differ in their rows
InitRows == InitWith(FilesRows)

SpecRows == InitRows /\ [][Next]_vars

\* the deduplicator alone, over every label sequence up to MaxCols
DedupLabels == {LX, LX_1, <<"X", "_", "2">>, QTY}

RECURSIVE LabelSeqs(_)
LabelSeqs(n) ==
  IF n = 0 THEN {<<>>}
  ELSE LabelSeqs(n - 1)
       \cup { Append(s, c) : s \in { t \in LabelSeqs(n - 1) : Len(t) = n - 1 },
                             c \in DedupLabels }

InitDedup ==
  /\ files = {}
  /\ uploads = <<>>
  /\ match_mode = ModeBoth
  /\ pc = "merged"
  /\ i = 1
  /\ frames = <<>>
  /\ \E cs \in LabelSeqs(MaxCols) :
       LET df == IF cs = <<>> THEN EmptyFrame
                 ELSE [cols |-> cs, rows |-> <<[k \in 1..Len(cs) |-> "v"]>>]
       IN  combined = df /\ result = df
  /\ j = 1
  /\ prev = EmptyFrame
  /\ op = "none"
  /\ screen = BlankScreen

SpecDedup == InitDedup /\ [][Finish]_vars

\* one file of each kind the run's outcome depends on: with keys, without,
\* with no data rows, unreadable
FilesUI ==
  { File("full.csv", <<ITEM, DESCRIPTION, RATE>>,
         << <<"A", "A", "p">>, <<"B", "A", "p">> >>),
    File("x2.csv", <<LX>>, << <<"t">>, <<"t">> >>),
    HeaderOnly,
    Corrupt }

InitUI == InitWith(FilesUI)

\* the script runs to completion once triggered (synchronous, no cancellation)
FairSpec == InitUI /\ [][Next]_vars /\ WF_vars(RunStep)

\* ================================================================== claims

\* how many uploads the loading loop has been through
Loaded == IF pc = "idle" THEN 0
          ELSE IF pc = "loading" THEN i - 1
          ELSE Len(uploads)

\* the 1-based upload positions, among the first n, of the files that parse to
\* a table with at least one row and one column
KeptPositions(n) ==
  SelectSeq([k \in 1..n |-> k],
            LAMBDA k : /\ uploads[k].parses
                       /\ Len(uploads[k].table.cols) > 0
                       /\ Len(uploads[k].table.rows) > 0)

Distinct(cols) ==
  \A a, b \in 1..Len(cols) : a # b => cols[a] # cols[b]

RateLike(c) == Contains(rate, Lower(c))

ExpectedTag(p) ==
  <<"C", "o", "n", "t", "r", "a", "c", "t", "o", "r", "_">> \o Dec(p)

\* the part folded in by the latest fold iteration
LastPart == frames[j - 1]

Max(a, b) == IF a >= b THEN a ELSE b

\* ------------------------------------------------------------------- C1
\* C1: the labels make_columns_unique returns are pairwise distinct, for
\* every input label sequence (also one that holds X_1 next to a repeated X).
C1_OutputLabelsDistinct ==
  (pc = "done" /\ screen.success) => Distinct(result.cols)

\* ------------------------------------------------------------------ C10
\* C10: make_columns_unique keeps the number and order of the columns (and
\* the rows), leaves the first occurrence of a label unchanged and renames
\* the k-th later occurrence of a label L to L_k, counting per label.
C10_SuffixByOccurrence ==
  (pc = "done" /\ screen.success) =>
    /\ Len(result.cols) = Len(combined.cols)
    /\ result.rows = combined.rows
    /\ screen.table = <<result>>
    /\ \A k \in 1..Len(combined.cols) :
         LET earlier == Cardinality({m \in 1..(k - 1) :
                                       combined.cols[m] = combined.cols[k]})
         IN  result.cols[k] =
               IF earlier = 0 THEN combined.cols[k]
               ELSE combined.cols[k] \o <<"_">> \o Dec(earlier)

C10_Witness ==
  /\ pc = "done"
  /\ combined.cols = <<LX, QTY, LX, LX>>
  /\ result.cols = <<LX, QTY, LX_1, <<"X", "_", "2">>>>

\* ------------------------------------------------------------------- C2
\* C2: a loaded table with no column named RATE and several columns whose
\* lower-cased name contains "rate" has only the first of them renamed: the
\* frame ends with exactly one Contractor_{i}_RATE column and every other
\* column (AMOUNT apart) keeps its label.
C2_OnlyFirstRateRenamed ==
  \A k \in 1..Len(frames) :
    LET p == KeptPositions(Loaded)[k]
        src == uploads[p].table.cols
        got == frames[k].cols
        tagged == ExpectedTag(p) \o <<"_">> \o RATE
        cands == {c \in 1..Len(src) : RateLike(src[c])}
    IN  ((\A c \in 1..Len(src) : src[c] # RATE) /\ Cardinality(cands) > 1) =>
          /\ Cardinality({c \in 1..Len(got) : got[c] = tagged}) = 1
          /\ \A c \in 1..Len(src) :
               IF c \in cands /\ \A m \in cands : c <= m
                 THEN got[c] = tagged
                 ELSE src[c] # AMOUNT => got[c] = src[c]

\* ------------------------------------------------------------------- C8
\* C8: the frame kept for the file at 1-based upload position p (earlier
\* skipped files counted) has the columns of the loaded table with RATE, or
\* failing that the labels containing "rate" in any case, renamed to
\* Contractor_{p}_RATE and AMOUNT renamed to Contractor_{p}_AMOUNT; every
\* other label and the rows are unchanged; a table with no label containing
\* "rate" gets no Contractor_{p}_RATE column.  The tag is built from p alone.
C8_TaggedByUploadPosition ==
  /\ Len(frames) = Len(KeptPositions(Loaded))
  /\ \A k \in 1..Len(frames) :
       LET p == KeptPositions(Loaded)[k]
           src == uploads[p].table
           got == frames[k]
           tag == ExpectedTag(p)
           hasRATE == \E c \in 1..Len(src.cols) : src.cols[c] = RATE
       IN  /\ Len(got.cols) = Len(src.cols)
           /\ got.rows = src.rows
           /\ \A c \in 1..Len(src.cols) :
                got.cols[c] =
                  IF src.cols[c] = RATE THEN tag \o <<"_">> \o RATE
                  ELSE IF ~hasRATE /\ RateLike(src.cols[c])
                    THEN tag \o <<"_">> \o RATE
                  ELSE IF src.cols[c] = AMOUNT THEN tag \o <<"_">> \o AMOUNT
                  ELSE src.cols[c]
           /\ (\A c \in 1..Len(src.cols) : ~RateLike(src.cols[c])) =>
                \A c \in 1..Len(got.cols) : got.cols[c] # tag \o <<"_">> \o RATE

\* a frame from upload position 3, after a skipped file, whose Rate and
\* AMOUNT columns carry the tag of position 3
C8_Witness ==
  /\ Len(uploads) = 3
  /\ ~uploads[2].parses
  /\ uploads[3].table.cols = <<ITEM, Rate_Mixed, AMOUNT>>
  /\ Len(frames) = 2
  /\ frames[2].cols =
       <<ITEM,
         <<"C", "o", "n", "t", "r", "a", "c", "t", "o", "r", "_", "3", "_",
           "R", "A", "T", "E">>,
         <<"C", "o", "n", "t", "r", "a", "c", "t", "o", "r", "_", "3", "_",
           "A", "M", "O", "U", "N", "T">>>>

\* ------------------------------------------------------------------- C6
\* the fold of lines 94-108 over the kept files alone, each normalized with
\* its own upload position
RECURSIVE MergeKept(_, _, _)
MergeKept(acc, kept, k) ==
  IF k > Len(kept) THEN acc
  ELSE MergeKept(FoldOnce(match_mode, acc,
                          Normalize(uploads[kept[k]].table, kept[k])),
                 kept, k + 1)

\* C6: a file that fails to parse is reported by name and loads as a table
\* with zero rows and zero columns; it is skipped, and the run's result is
\* the merge of the remaining non-empty files with their upload positions.
C6_FailedFileSkipped ==
  /\ \A k \in 1..Len(uploads) :
       ~uploads[k].parses =>
         /\ load_table(uploads[k]).df.cols = <<>>
         /\ load_table(uploads[k]).df.rows = <<>>
  /\ screen.errors =
       LET bad == SelectSeq([k \in 1..Loaded |-> k],
                            LAMBDA k : ~uploads[k].parses)
       IN  [k \in 1..Len(bad) |-> uploads[bad[k]].name]
  /\ pc = "merged" =>
       LET kept == KeptPositions(Len(uploads))
       IN  result =
             IF kept = <<>> THEN EmptyFrame
             ELSE MergeKept(Normalize(uploads[kept[1]].table, kept[1]), kept, 2)

C6_Witness ==
  /\ pc = "merged"
  /\ Len(uploads) = 3
  /\ ~uploads[1].parses
  /\ screen.errors = <<uploads[1].name>>
  /\ Len(frames) = 2
  /\ ~IsEmpty(result)

\* ------------------------------------------------------------------- C9
RequestedKeys(mode) ==
  IF mode = ModeBoth THEN {ITEM, DESCRIPTION}
  ELSE IF mode = ModeDesc THEN {DESCRIPTION}
  ELSE {ITEM}

ColSet(df) == {df.cols[k] : k \in 1..Len(df.cols)}

SharedKeys == RequestedKeys(match_mode) \cap ColSet(prev) \cap ColSet(LastPart)

\* C9: every fold iteration joins on the requested keys that are labels of
\* both the accumulator and the incoming table: a full outer join exactly
\* when there is such a key, a side-by-side concatenation exactly when there
\* is none.
C9_KeySetPerStep ==
  op # "none" =>
    /\ op = "merge" <=> SharedKeys # {}
    /\ op = "concat" <=> SharedKeys = {}
    /\ combined =
         IF SharedKeys # {}
           THEN OuterMerge(prev, LastPart,
                           SelectSeq(<<ITEM, DESCRIPTION>>,
                                     LAMBDA c : c \in SharedKeys))
           ELSE ConcatColumns(prev, LastPart)

\* mode "ITEM + DESCRIPTION" joining on ITEM alone, at the second iteration
C9_Witness ==
  /\ match_mode = ModeBoth
  /\ j = 4
  /\ op = "merge"
  /\ SharedKeys = {ITEM}

\* ------------------------------------------------------------------- C7
RunInvariant ==
  /\ pc # "idle" => Len(uploads) >= 2
  /\ pc = "done" =>
       \/ /\ ~IsEmpty(result)
          /\ screen.success
          /\ screen.table = <<result>>
          /\ screen.download = <<DownloadName>>
          /\ WarnNoData \notin {screen.warnings[k] : k \in 1..Len(screen.warnings)}
       \/ /\ IsEmpty(result)
          /\ ~screen.success
          /\ screen.table = <<>>
          /\ screen.download = <<>>
          /\ WarnNoData \in {screen.warnings[k] : k \in 1..Len(screen.warnings)}

KeyCount(df, keys, kv) ==
  Cardinality({r \in 1..RowCount(df) : KeyOf(df, keys, df.rows[r]) = kv})

KeyValues(df, keys) == {KeyOf(df, keys, df.rows[r]) : r \in 1..RowCount(df)}

LastKeys == SelectSeq(<<ITEM, DESCRIPTION>>, LAMBDA c : c \in SharedKeys)

\* no key value occurs in more than one row of both joined tables
NoManyToMany ==
  \A kv \in KeyValues(prev, LastKeys) :
    KeyCount(prev, LastKeys, kv) <= 1 \/ KeyCount(LastPart, LastKeys, kv) <= 1

\* C3 as stated: after an outer join on a non-empty key set the row count is
\* at least the larger and at most the sum of the two joined row counts,
\* whatever the inputs (repeated key values included).
C3_OuterJoinBounds ==
  op = "merge" =>
    /\ RowCount(combined) >= Max(RowCount(prev), RowCount(LastPart))
    /\ RowCount(combined) <= RowCount(prev) + RowCount(LastPart)

\* C3 amended: the lower bound holds for all inputs; the upper bound holds
\* when no key value occurs in more than one row of both joined tables.
C3_OuterJoinBoundsAmended ==
  op = "merge" =>
    /\ RowCount(combined) >= Max(RowCount(prev), RowCount(LastPart))
    /\ NoManyToMany =>
         RowCount(combined) <= RowCount(prev) + RowCount(LastPart)

\* a join where a key value is repeated on one side only and another key
\* value is on one side only
C3_Witness ==
  /\ op = "merge"
  /\ NoManyToMany
  /\ \E kv \in KeyValues(LastPart, LastKeys) :
       KeyCount(LastPart, LastKeys, kv) = 2 /\ KeyCount(prev, LastKeys, kv) = 1
  /\ \E kv \in KeyValues(prev, LastKeys) : KeyCount(LastPart, LastKeys, kv) = 0
  /\ RowCount(combined) = RowCount(prev) + 1

\* ------------------------------------------------------------------- C4
\* C4: the accumulator's row count never decreases from one fold iteration
\* to the next, be it an outer join or the concatenation fallback.
C4_RowCountMonotone ==
  [][(pc = "folding" /\ pc' = "folding") =>
       RowCount(combined') >= RowCount(combined)]_vars

\* the second iteration, a concatenation with a longer table, after a join
C4_Witness ==
  /\ j = 4
  /\ op = "concat"
  /\ HasCol(prev, ITEM)
  /\ RowCount(prev) < RowCount(LastPart)
  /\ RowCount(combined) > RowCount(prev)

\* ------------------------------------------------------------------- C5
\* C5 as stated: a fold iteration with an empty key set leaves the row count
\* of the accumulator as it was, also when the incoming table is longer.
C5_ConcatKeepsAccumulatorRows ==
  op = "concat" => RowCount(combined) = RowCount(prev)

\* C5 amended: a fold iteration with an empty key set yields the side-by-side
\* concatenation (the accumulator's columns, then the incoming table's, row k
\* beside row k, missing cells where one table is shorter), and its row count
\* is the larger of the accumulator's and the incoming table's row counts.
C5_ConcatRowsAreMax ==
  op = "concat" =>
    LET nl == Len(prev.cols)
        nr == Len(LastPart.cols)
    IN  /\ SharedKeys = {}
        /\ combined.cols = prev.cols \o LastPart.cols
        /\ RowCount(combined) = Max(RowCount(prev), RowCount(LastPart))
        /\ \A k \in 1..RowCount(combined) :
             /\ SubSeq(combined.rows[k], 1, nl) =
                  IF k <= RowCount(prev) THEN prev.rows[k]
                  ELSE [c \in 1..nl |-> NaN]
             /\ SubSeq(combined.rows[k], nl + 1, nl + nr) =
                  IF k <= RowCount(LastPart) THEN LastPart.rows[k]
                  ELSE [c \in 1..nr |-> NaN]

\* the incoming table has more rows than the accumulator
C5_Witness ==
  /\ op = "concat"
  /\ RowCount(LastPart) > RowCount(prev)
  /\ RowCount(combined) = RowCount(LastPart)

====
